---- MODULE Spec2Model ----
(***************************************************************************)
(* Model of script.py: the newsletter pipeline of newsletter-kalepin.      *)
(*                                                                         *)
(* Text is modelled as sequences of one-character strings.  Instants are   *)
(* whole seconds since 2025-06-01T00:00:00Z and every timestamp of the     *)
(* model lies in June 2025, so the year and month fields are the fixed     *)
(* prefix "2025-06-".  A JSON / Python value is a record with a tag:       *)
(* "absent" (the key is not in the dict), "null" (None), "str" or "obj".   *)
(***************************************************************************)
EXTENDS Integers, Sequences, FiniteSets, TLC

VARIABLES pc, argv_test, begins_on, ends_on, response, raw_events, events,
          exc, exit_code, html_written, inlined_written, attempts

vars == <<pc, argv_test, begins_on, ends_on, response, raw_events, events,
          exc, exit_code, html_written, inlined_written, attempts>>

(***************************************************************************)
(* Bounds of the model                                                     *)
(***************************************************************************)
MaxElems == 3

MaxTail == 3

(***************************************************************************)
(* Python values                                                           *)
(***************************************************************************)
Absent == [tag |-> "absent"]

Null == [tag |-> "null"]

Str(s) == [tag |-> "str", val |-> s]

Obj(o) == [tag |-> "obj", val |-> o]

\* a call that raises exception e instead of returning
Raise(e) == [tag |-> "raise", exc |-> e]

Return(v) == [tag |-> "ok", val |-> v]

\* dict.get(key, default): the default only replaces a key that is absent
Get(d, key, default) == IF d[key].tag = "absent" THEN default ELSE d[key]

\* dict.get(key): None for a key that is absent
Get1(d, key) == Get(d, key, Null)

\* truthiness of a value: None, "" and {} are falsy
Truthy(v) ==
  CASE v.tag = "null" -> FALSE
    [] v.tag = "absent" -> FALSE
    [] v.tag = "str" -> v.val # <<>>
    [] v.tag = "obj" -> \E k \in DOMAIN v.val : v.val[k].tag # "absent"

\* x or "": the text of a truthy string, "" otherwise
OrEmpty(v) == IF Truthy(v) THEN v.val ELSE <<>>

(***************************************************************************)
(* Text helpers                                                            *)
(***************************************************************************)
Digits == <<"0", "1", "2", "3", "4", "5", "6", "7", "8", "9">>

DigitVal(c) ==
  CASE c = "0" -> 0 [] c = "1" -> 1 [] c = "2" -> 2 [] c = "3" -> 3
    [] c = "4" -> 4 [] c = "5" -> 5 [] c = "6" -> 6 [] c = "7" -> 7
    [] c = "8" -> 8 [] c = "9" -> 9

Two(n) == <<Digits[(n \div 10) + 1], Digits[(n % 10) + 1]>>

Num2(s, i) == 10 * DigitVal(s[i]) + DigitVal(s[i + 1])

Whitespace == {" ", "\n", "\t"}

\* code points of the characters that occur in timestamps
CharOrd(c) ==
  CASE c = "+" -> 43
    [] c = "-" -> 45
    [] c = "." -> 46
    [] c \in {Digits[i] : i \in 1..10} -> 48 + DigitVal(c)
    [] c = ":" -> 58
    [] c = "T" -> 84
    [] c = "Z" -> 90

RECURSIVE StrLess(_, _)
\* a < b on str: lexicographic by code point, a proper prefix is smaller
StrLess(a, b) ==
  IF b = <<>> THEN FALSE
  ELSE IF a = <<>> THEN TRUE
  ELSE IF Head(a) = Head(b) THEN StrLess(Tail(a), Tail(b))
  ELSE CharOrd(Head(a)) < CharOrd(Head(b))

StartsWith(s, p) ==
  Len(s) >= Len(p) /\ (p = <<>> \/ (s[1] = p[1] /\ SubSeq(s, 1, Len(p)) = p))

RECURSIVE Replace(_, _, _)
\* str.replace(old, new): every non-overlapping occurrence, left to right
Replace(s, old, new) ==
  IF s = <<>> THEN <<>>
  ELSE IF StartsWith(s, old)
       THEN new \o Replace(SubSeq(s, Len(old) + 1, Len(s)), old, new)
       ELSE <<Head(s)>> \o Replace(Tail(s), old, new)

RECURSIVE RStrip(_)
\* str.rstrip(): drop the trailing whitespace
RStrip(s) ==
  IF s = <<>> THEN <<>>
  ELSE IF s[Len(s)] \in Whitespace THEN RStrip(SubSeq(s, 1, Len(s) - 1))
  ELSE s

\* str.strip() is falsy exactly when the text is whitespace only
StripIsEmpty(s) == RStrip(s) = <<>>

RECURSIVE Join(_, _)
\* sep.join(parts)
Join(sep, parts) ==
  IF parts = <<>> THEN <<>>
  ELSE IF Len(parts) = 1 THEN parts[1]
  ELSE parts[1] \o sep \o Join(sep, Tail(parts))

(***************************************************************************)
(* datetime: isoformat and fromisoformat                                   *)
(***************************************************************************)
Day == 24 * 3600

Abs(n) == IF n < 0 THEN -n ELSE n

OffsetText(off) ==
  <<IF off < 0 THEN "-" ELSE "+">> \o Two(Abs(off) \div 3600) \o <<":">>
    \o Two((Abs(off) % 3600) \div 60)

\* datetime.isoformat() of the instant t shown at UTC offset off
IsoFormat(t, off) ==
  LET local == t + off
      sod   == local % Day
  IN  <<"2", "0", "2", "5", "-", "0", "6", "-">> \o Two((local \div Day) + 1)
        \o <<"T">> \o Two(sod \div 3600) \o <<":">> \o Two((sod % 3600) \div 60)
        \o <<":">> \o Two(sod % 60) \o OffsetText(off)

\* datetime.fromisoformat(s) of an offset-carrying timestamp, as an instant
FromIsoFormat(s) ==
  LET local == (Num2(s, 9) - 1) * Day + Num2(s, 12) * 3600
                 + Num2(s, 15) * 60 + Num2(s, 18)
      off   == Num2(s, 21) * 3600 + Num2(s, 24) * 60
  IN  IF s[20] = "-" THEN local + off ELSE local - off

ZSuffix == <<"Z">>

UtcSuffix == <<"+", "0", "0", ":", "0", "0">>

\* datetime.fromisoformat(text.replace("Z", "+00:00"))
ParseInstant(text) == FromIsoFormat(Replace(text, ZSuffix, UtcSuffix))

(***************************************************************************)
(* Configuration (script.py, CONFIGURATION) and fixed tables               *)
(***************************************************************************)
QUERY_LIMIT == 100

DescLimit == 300

WindowDays == 10

Placeholder == Str(<<"S", "a", "n", "s", " ", "t", "i", "t", "r", "e">>)

\* the two characters appended to a truncated description: a space and the
\* ellipsis glyph U+2026, written here as one token
EllipsisMark == <<" ", "u2026">>

jours_semaine ==
  <<"Lundi", "Mardi", "Mercredi", "Jeudi", "Vendredi", "Samedi", "Dimanche">>

mois_annee ==
  <<"", "janvier", "fevrier", "mars", "avril", "mai", "juin", "juillet",
    "aout", "septembre", "octobre", "novembre", "decembre">>

(***************************************************************************)
(* get_time_window                                                         *)
(***************************************************************************)
\* the pair (begins_iso, ends_iso) for the clock reading now
get_time_window(now, days) ==
  <<Replace(IsoFormat(now, 0), UtcSuffix, ZSuffix),
    Replace(IsoFormat(now + days * Day, 0), UtcSuffix, ZSuffix)>>

(***************************************************************************)
(* fetch_events: the filter over data.searchEvents.elements                *)
(***************************************************************************)
InWindowIncl(elem, b, e) ==
  /\ Get1(elem, "typename") = Str("Event")
  /\ Truthy(Get1(elem, "beginsOn"))
  /\ LET dt        == ParseInstant(Get1(elem, "beginsOn").val)
         dt_begins == ParseInstant(b)
         dt_ends   == ParseInstant(e)
     IN  dt_begins <= dt /\ dt <= dt_ends

\* the test of one element: type, then a truthy beginsOn, then the window
InWindow(elem, b, e) ==
  /\ Get1(elem, "typename") = Str("Event")
  /\ Truthy(Get1(elem, "beginsOn"))
  /\ LET dt        == ParseInstant(Get1(elem, "beginsOn").val)
         dt_begins == ParseInstant(b)
         dt_ends   == ParseInstant(e)
     IN  dt_begins <= dt /\ dt < dt_ends

RECURSIVE FetchLoop(_, _, _)
\* the for loop: append each element that passes, in response order
FetchLoop(elements, b, e) ==
  IF elements = <<>> THEN <<>>
  ELSE (IF InWindow(Head(elements), b, e) THEN <<Head(elements)>> ELSE <<>>)
         \o FetchLoop(Tail(elements), b, e)

fetch_events_swallowing_errors(resp, b, e) ==
  CASE resp.kind = "http_error" -> Raise("HTTPError")
    [] resp.kind = "errors" -> Return(<<>>)
    [] resp.kind = "ok" -> Return(FetchLoop(resp.elements, b, e))

\* lines 98-115: raise_for_status, the errors check, then the filter
fetch_events(resp, b, e) ==
  CASE resp.kind = "http_error" -> Raise("HTTPError")
    [] resp.kind = "errors" -> Raise("RuntimeError")
    [] resp.kind = "ok" -> Return(FetchLoop(resp.elements, b, e))

(***************************************************************************)
(* raw_events.sort(key=lambda ev: ev.get('beginsOn', ''))                  *)
(***************************************************************************)
SortKey(ev) == Get(ev, "beginsOn", Str(<<>>)).val

RECURSIVE InsertByKey(_, _)
InsertByKey(s, ev) ==
  IF s = <<>> THEN <<ev>>
  ELSE IF StrLess(SortKey(ev), SortKey(s[Len(s)]))
       THEN InsertByKey(SubSeq(s, 1, Len(s) - 1), ev) \o <<s[Len(s)]>>
       ELSE s \o <<ev>>

RECURSIVE SortByKey(_)
\* list.sort is stable: equal keys keep their order
SortByKey(l) ==
  IF l = <<>> THEN <<>>
  ELSE InsertByKey(SortByKey(SubSeq(l, 1, Len(l) - 1)), l[Len(l)])

(***************************************************************************)
(* prepare_events_for_template                                             *)
(***************************************************************************)
\* a description is a fragment of HTML, held as its tokens: text runs and
\* the opening and closing tags of an inline element
TextRun(s) == [kind |-> "text", text |-> s]

OpenTag == [kind |-> "open", text |-> <<>>]

CloseTag == [kind |-> "close", text |-> <<>>]

RECURSIVE CloseTags(_, _)
CloseTags(s, open) ==
  IF s = <<>> THEN [k \in 1..open |-> CloseTag]
  ELSE IF Head(s).kind = "open" THEN <<OpenTag>> \o CloseTags(Tail(s), open + 1)
  ELSE IF Head(s).kind = "close"
       THEN IF open > 0 THEN <<CloseTag>> \o CloseTags(Tail(s), open - 1)
            ELSE CloseTags(Tail(s), open)
  ELSE <<Head(s)>> \o CloseTags(Tail(s), open)

\* the fragment with every opened tag closed and stray closers dropped
sanitize_html(raw_html) == CloseTags(raw_html, 0)

RECURSIVE get_text(_)
\* BeautifulSoup(...).get_text(): the text nodes only, concatenated
get_text(html) ==
  IF html = <<>> THEN <<>>
  ELSE Head(html).text \o get_text(Tail(html))

TruncateAtOrOver(text_only) ==
  IF Len(text_only) >= DescLimit
  THEN RStrip(SubSeq(text_only, 1, DescLimit)) \o EllipsisMark
  ELSE text_only

\* lines 141-144
Truncate(text_only) ==
  IF Len(text_only) > DescLimit
  THEN RStrip(SubSeq(text_only, 1, DescLimit)) \o EllipsisMark
  ELSE text_only

NotBlank(x) == ~StripIsEmpty(x)

LocationJoinAll(phys) ==
  IF Truthy(phys)
  THEN Join(<<",", " ">>, <<OrEmpty(Get1(phys.val, "description")),
                            OrEmpty(Get1(phys.val, "locality"))>>)
  ELSE <<>>

\* lines 150-156
Location(phys) ==
  IF Truthy(phys)
  THEN LET part1 == OrEmpty(Get1(phys.val, "description"))
           part2 == OrEmpty(Get1(phys.val, "locality"))
       IN  Join(<<",", " ">>, SelectSeq(<<part1, part2>>, NotBlank))
  ELSE <<>>

\* ev.get("picture", {}).get("url"): None has no get
PictureUrl(ev) ==
  LET picture == Get(ev, "picture", Obj([url |-> Absent]))
  IN  IF picture.tag = "obj" THEN Get1(picture.val, "url")
      ELSE Raise("AttributeError")

\* lines 158-168: June 2025 is summer time in Europe/Paris (UTC+2) and
\* 2025-06-01 is a Sunday
FullDate(begins_iso) ==
  LET dt_paris == ParseInstant(begins_iso) + 2 * 3600
      sod      == dt_paris % Day
  IN  [jour_nom   |-> jours_semaine[((6 + (dt_paris \div Day)) % 7) + 1],
       jour_num   |-> (dt_paris \div Day) + 1,
       mois_nom   |-> mois_annee[6 + 1],
       annee      |-> 2025,
       heure      |-> sod \div 3600,
       minute_str |-> Two((sod % 3600) \div 60)]

\* one pass of the loop body, lines 133-177
PrepareOne(ev) ==
  IF PictureUrl(ev).tag = "raise" THEN PictureUrl(ev)
  ELSE [title       |-> Get(ev, "title", Placeholder),
        description |-> Truncate(get_text(sanitize_html(
                          OrEmpty(Get1(ev, "description"))))),
        full_date   |-> FullDate(Get1(ev, "beginsOn").val),
        picture_url |-> PictureUrl(ev),
        location    |-> Location(Get1(ev, "physicalAddress")),
        link        |-> OrEmpty(Get1(ev, "url"))]

prepare_events_for_template(raw) ==
  IF \E i \in 1..Len(raw) : PictureUrl(raw[i]).tag = "raise"
  THEN Raise("AttributeError")
  ELSE Return([i \in 1..Len(raw) |-> PrepareOne(raw[i])])

(***************************************************************************)
(* Inputs: clock readings, upstream responses, command line                *)
(***************************************************************************)
N0 == Day + 18 * 3600

Nows == {N0, N0 + 3600}

EventInstants ==
  {N0, N0 + 3600, N0 + WindowDays * Day, N0 + WindowDays * Day + 3600}

Forms == {"Z", "+02:00"}

\* how the upstream writes the instant t
Timestamp(t, form) ==
  IF form = "Z" THEN Replace(IsoFormat(t, 0), UtcSuffix, ZSuffix)
  ELSE IsoFormat(t, 2 * 3600)

Texts == {Timestamp(t, f) : t \in EventInstants, f \in Forms}

\* the instant a timestamp of the upstream denotes
InstantTable ==
  [x \in Texts |->
     CHOOSE t \in EventInstants : \E f \in Forms : Timestamp(t, f) = x]

InstantOf(text) == InstantTable[text]

SomePicture == Obj([url |-> Str(<<"p">>)])

BaseEvent(beginsOn, picture) ==
  [typename |-> Str("Event"), beginsOn |-> beginsOn, title |-> Str(<<"T">>),
   description |-> Str(<<TextRun(<<"d">>)>>), picture |-> picture, url |-> Str(<<"u">>),
   physicalAddress |-> Null]

\* an element of another type: the inline fragment selects nothing
Group ==
  [typename |-> Str("Group"), beginsOn |-> Absent, title |-> Absent,
   description |-> Absent, picture |-> Absent, url |-> Absent,
   physicalAddress |-> Absent]

Elements ==
  {BaseEvent(Str(x), SomePicture) : x \in Texts}
    \cup {BaseEvent(Str(Timestamp(N0 + 3600, "Z")), Null),
          BaseEvent(Null, SomePicture), Group}

Min(a, b) == IF a < b THEN a ELSE b

NoResponse == [kind |-> "none", elements |-> <<>>]

\* what the POST brings back: a transport failure, an errors payload, or
\* data.searchEvents.elements
Response(kind, l) == [kind |-> kind, elements |-> IF kind = "ok" THEN l ELSE <<>>]

(***************************************************************************)
(* The run: the script entry point calls main, then the dispatcher         *)
(***************************************************************************)
Init ==
  /\ pc = "start"
  /\ argv_test \in BOOLEAN
  /\ begins_on = <<>>
  /\ ends_on = <<>>
  /\ response = NoResponse
  /\ raw_events = <<>>
  /\ events = <<>>
  /\ exc = "none"
  /\ exit_code = -1
  /\ html_written = FALSE
  /\ inlined_written = FALSE
  /\ attempts = <<>>

\* the except clause of main: print the error, sys.exit(1)
Caught(e) == pc' = "exited" /\ exc' = e /\ exit_code' = 1

\* lines 207-209
main_window ==
  /\ pc = "start"
  /\ \E now \in Nows :
       /\ begins_on' = get_time_window(now, WindowDays)[1]
       /\ ends_on' = get_time_window(now, WindowDays)[2]
  /\ pc' = "window"
  /\ UNCHANGED <<argv_test, response, raw_events, events, exc, exit_code,
                 html_written, inlined_written, attempts>>

\* line 212
main_fetch ==
  /\ pc = "window"
  /\ \E kind \in {"ok", "http_error", "errors"} :
     \E n \in 0..Min(MaxElems, QUERY_LIMIT) :
     \E l \in [1..n -> Elements] :
       /\ kind = "ok" \/ n = 0
       /\ response' = Response(kind, l)
       /\ LET r == fetch_events(Response(kind, l), begins_on, ends_on)
          IN  IF r.tag = "raise"
              THEN Caught(r.exc) /\ UNCHANGED raw_events
              ELSE /\ raw_events' = r.val
                   /\ pc' = "fetched"
                   /\ UNCHANGED <<exc, exit_code>>
  /\ UNCHANGED <<argv_test, begins_on, ends_on, events, html_written,
                 inlined_written, attempts>>

NeverEmpty(l) == FALSE

\* line 213: not raw_events
NoEvents(l) == l = <<>>

\* lines 213-215: sys.exit(0) is not an Exception, the except clause lets it by
main_empty ==
  /\ pc = "fetched"
  /\ NoEvents(raw_events)
  /\ pc' = "exited"
  /\ exit_code' = 0
  /\ response' = NoResponse
  /\ UNCHANGED <<argv_test, begins_on, ends_on, raw_events, events, exc,
                 html_written, inlined_written, attempts>>

\* lines 218-222
main_sort ==
  /\ pc = "fetched"
  /\ ~NoEvents(raw_events)
  /\ raw_events' = SortByKey(raw_events)
  /\ response' = NoResponse
  /\ pc' = "sorted"
  /\ UNCHANGED <<argv_test, begins_on, ends_on, events, exc, exit_code,
                 html_written, inlined_written, attempts>>

\* line 225
main_prepare ==
  /\ pc = "sorted"
  /\ LET r == prepare_events_for_template(raw_events)
     IN  IF r.tag = "raise"
         THEN Caught(r.exc) /\ UNCHANGED events
         ELSE /\ events' = r.val
              /\ pc' = "prepared"
              /\ UNCHANGED <<exc, exit_code>>
  /\ UNCHANGED <<argv_test, begins_on, ends_on, response, raw_events,
                 html_written, inlined_written, attempts>>

\* lines 228-233: the template may be missing or fail to render
main_render ==
  /\ pc = "prepared"
  /\ \E ok \in BOOLEAN :
       IF ok THEN pc' = "rendered" /\ UNCHANGED <<exc, exit_code>>
       ELSE Caught("TemplateError")
  /\ UNCHANGED <<argv_test, begins_on, ends_on, response, raw_events, events,
                 html_written, inlined_written, attempts>>

\* lines 236-239
main_write ==
  /\ pc = "rendered"
  /\ \E ok \in BOOLEAN :
       IF ok
       THEN pc' = "written" /\ html_written' = TRUE /\ UNCHANGED <<exc, exit_code>>
       ELSE Caught("OSError") /\ UNCHANGED html_written
  /\ UNCHANGED <<argv_test, begins_on, ends_on, response, raw_events, events,
                 inlined_written, attempts>>

\* lines 242-244, after which main returns
main_inline ==
  /\ pc = "written"
  /\ \E ok \in BOOLEAN :
       IF ok
       THEN /\ pc' = "main_returned"
            /\ inlined_written' = TRUE
            /\ UNCHANGED <<exc, exit_code>>
       ELSE Caught("InlineError") /\ UNCHANGED inlined_written
  /\ UNCHANGED <<argv_test, begins_on, ends_on, response, raw_events, events,
                 html_written, attempts>>

\* lines 257-324: no send without the module or the configuration; a send
\* goes to the test address or to the list; an ApiException is logged
envoyer_newsletter_brevo(test) ==
  \E import_ok, config_ok, api_ok \in BOOLEAN :
    attempts' =
      IF import_ok /\ config_ok
      THEN Append(attempts, [to |-> IF test THEN "test_email" ELSE "list",
                             sent |-> api_ok])
      ELSE attempts

entry_point_sending_to_list ==
  /\ pc = "main_returned"
  /\ IF argv_test THEN envoyer_newsletter_brevo(TRUE)
     ELSE envoyer_newsletter_brevo(FALSE)
  /\ pc' = "exited"
  /\ exit_code' = 0
  /\ UNCHANGED <<argv_test, begins_on, ends_on, response, raw_events, events,
                 exc, html_written, inlined_written>>

\* lines 326-335, after main has returned
entry_point ==
  /\ pc = "main_returned"
  /\ IF argv_test THEN envoyer_newsletter_brevo(TRUE)
     ELSE attempts' = attempts
  /\ pc' = "exited"
  /\ exit_code' = 0
  /\ UNCHANGED <<argv_test, begins_on, ends_on, response, raw_events, events,
                 exc, html_written, inlined_written>>

Next ==
  \/ main_window
  \/ main_fetch
  \/ main_empty
  \/ main_sort
  \/ main_prepare
  \/ main_render
  \/ main_write
  \/ main_inline
  \/ entry_point

Spec == Init /\ [][Next]_vars

\* the script is sequential: a step that can be taken is taken
FairSpec == Spec /\ WF_vars(main_empty)

(***************************************************************************)
(* The normalizer on its own: main stands before line 225 with one event   *)
(* that passed the filter, its fields drawn from every shape the upstream  *)
(* JSON can take                                                           *)
(***************************************************************************)
Titles == {Absent, Null, Str(<<>>), Str(<<"T">>)}

Pad(n) == [i \in 1..n |-> "a"]

Tails == UNION {[1..n -> {"a", " "}] : n \in 0..MaxTail}

Descriptions ==
  {Absent, Null, Str(<<>>)}
    \cup {Str(<<TextRun(Pad(DescLimit - 2) \o t)>>) : t \in Tails}
    \cup {Str(<<TextRun(Pad(DescLimit - 2)), OpenTag, TextRun(t)>>) :
            t \in Tails}

Pictures ==
  {Absent, Null, Obj([url |-> Absent]), Obj([url |-> Null]),
   Obj([url |-> Str(<<"p">>)]), Obj([url |-> Str(<<"p", "?", "k", "?", "v">>)])}

DescriptionParts == {Absent, Null, Str(<<>>), Str(<<" ">>), Str(<<"A">>)}

LocalityParts == {Absent, Null, Str(<<>>), Str(<<" ">>), Str(<<"L">>)}

Addresses ==
  {Absent, Null}
    \cup {Obj([description |-> d, locality |-> l]) :
            d \in DescriptionParts, l \in LocalityParts}

Urls == {Absent, Str(<<"u">>)}

RichEvents ==
  {[typename |-> Str("Event"), beginsOn |-> Str(Timestamp(N0 + 3600, "Z")),
    title |-> t, description |-> d, picture |-> p, url |-> u,
    physicalAddress |-> a] :
     t \in Titles, d \in Descriptions, p \in Pictures, u \in Urls,
     a \in Addresses}

InitPrep ==
  /\ pc = "sorted"
  /\ argv_test = FALSE
  /\ begins_on = get_time_window(N0, WindowDays)[1]
  /\ ends_on = get_time_window(N0, WindowDays)[2]
  /\ response = NoResponse
  /\ \E ev \in RichEvents : raw_events = <<ev>>
  /\ events = <<>>
  /\ exc = "none"
  /\ exit_code = -1
  /\ html_written = FALSE
  /\ inlined_written = FALSE
  /\ attempts = <<>>

NextPrep == main_prepare

SpecPrep == InitPrep /\ [][NextPrep]_vars

(***************************************************************************)
(* Properties                                                              *)
(***************************************************************************)
\* the clock reading behind the window of the run
WindowTable == [n \in Nows |-> get_time_window(n, WindowDays)]

WindowStart == CHOOSE n \in Nows : WindowTable[n][1] = begins_on

WindowEnd == WindowStart + WindowDays * Day

IsEventAt(elem, t) ==
  /\ elem.typename = Str("Event")
  /\ elem.beginsOn.tag = "str"
  /\ InstantOf(elem.beginsOn.val) = t

Wanted(elem) ==
  /\ elem.typename = Str("Event")
  /\ elem.beginsOn.tag = "str"
  /\ WindowStart <= InstantOf(elem.beginsOn.val)
  /\ InstantOf(elem.beginsOn.val) < WindowEnd

ZeroEvents == pc \notin {"start", "window"} /\ exc = "none" /\ raw_events = <<>>

\* C2: a run whose fetch yields zero events ends with exit code 0, writes
\* neither artifact and reaches none of sort, normalize, render, write, inline.
C2_ZeroEventsExitZero ==
  /\ [](ZeroEvents =>
          /\ pc \in {"fetched", "exited"}
          /\ pc = "exited" => exit_code = 0
          /\ ~html_written
          /\ ~inlined_written
          /\ events = <<>>
          /\ attempts = <<>>)
  /\ (ZeroEvents ~> (pc = "exited" /\ exit_code = 0))

C2_Witness == ZeroEvents /\ pc = "exited" /\ exit_code = 0

\* C3: a failing step of main ends the run with exit code 1 and no later
\* step runs; a transport failure or an errors payload ends it with exit
\* code 1 before any artifact is written, never with exit code 0.
C3_FailureExitsOne ==
  /\ [](/\ exc # "none" => pc = "exited" /\ exit_code = 1 /\ attempts = <<>>
        /\ response.kind \in {"http_error", "errors"} =>
             /\ pc = "exited"
             /\ exit_code = 1
             /\ raw_events = <<>>
             /\ events = <<>>
             /\ ~html_written
             /\ ~inlined_written
        /\ exc = "AttributeError" => events = <<>> /\ ~html_written
        /\ exc = "TemplateError" => ~html_written
        /\ exc \in {"AttributeError", "TemplateError", "OSError", "InlineError"}
             => ~inlined_written)
  /\ [][exc = "none"]_vars

C3_Witness ==
  response.kind = "errors" /\ exc = "RuntimeError" /\ pc = "exited" /\ exit_code = 1

\* C4: the events handed to the renderer are one per fetched event and are
\* ordered non-decreasing by the start instant of their raw events, whatever
\* timestamp form the filter accepted.
C4_SortedByInstant ==
  pc = "prepared" =>
    /\ Len(events) = Len(raw_events)
    /\ \A i, j \in 1..Len(raw_events) :
         i < j => InstantOf(raw_events[i].beginsOn.val)
                    <= InstantOf(raw_events[j].beginsOn.val)

Missing(v) == v.tag \in {"absent", "null"}

HasMissingOptional(ev) ==
  \/ Missing(ev.title)
  \/ Missing(ev.picture)
  \/ Missing(ev.physicalAddress)
  \/ Missing(ev.url)

\* C5: an event that passed the filter and lacks any of title, picture,
\* physicalAddress, url (key absent or null) is normalized without raising
\* and the run does not fail because of it.
C5_MissingOptionalNeverFatal ==
  (\E i \in 1..Len(raw_events) : HasMissingOptional(raw_events[i]))
    => exc # "AttributeError"

\* C6: the title of the NormalizedEvent is the placeholder when the raw title
\* is absent or empty, and the raw title unchanged when it is non-empty.
C6_TitlePlaceholder ==
  pc = "prepared" =>
    \A i \in 1..Len(raw_events) :
      LET t == raw_events[i].title
      IN  IF t.tag = "str" /\ t.val # <<>> THEN events[i].title = t
          ELSE events[i].title = Placeholder

\* the visible text of a raw description
VisibleText(d) == IF d.tag = "str" THEN get_text(d.val) ELSE <<>>

\* C7: a text longer than 300 characters becomes its first 300 characters
\* without their trailing whitespace, followed by " ..."; a text of at most
\* 300 characters (exactly 300 included) is unchanged.
C7_Truncation ==
  pc = "prepared" =>
    \A i \in 1..Len(raw_events) :
      LET text == VisibleText(raw_events[i].description)
          out  == events[i].description
      IN  IF Len(text) > 300
          THEN \E n \in 0..300 :
                 /\ out = SubSeq(text, 1, n) \o <<" ", "u2026">>
                 /\ n = 0 \/ text[n] \notin Whitespace
                 /\ \A k \in (n + 1)..300 : text[k] \in Whitespace
          ELSE out = text

C7_Witness ==
  /\ pc = "prepared"
  /\ Len(VisibleText(raw_events[1].description)) > 300
  /\ VisibleText(raw_events[1].description)[300] \in Whitespace
  /\ Len(events[1].description) < 302

\* the part of a URL before its first question mark
BeforeQuery(u) ==
  LET k == CHOOSE k \in 1..(Len(u) + 1) :
             /\ k = Len(u) + 1 \/ u[k] = "?"
             /\ \A j \in 1..(k - 1) : u[j] # "?"
  IN  SubSeq(u, 1, k - 1)

\* C8: the picture URL of the NormalizedEvent is the raw URL cut before its
\* first "?", the raw URL unchanged when it has none, absent when the raw
\* event has no picture URL.
C8_PictureQueryStripped ==
  pc = "prepared" =>
    \A i \in 1..Len(raw_events) :
      LET p == raw_events[i].picture
      IN  IF p.tag = "obj" /\ p.val.url.tag = "str"
          THEN events[i].picture_url = Str(BeforeQuery(p.val.url.val))
          ELSE events[i].picture_url = Null

PartText(phys, key) ==
  IF phys.tag = "obj" /\ phys.val[key].tag = "str" THEN phys.val[key].val
  ELSE <<>>

Blank(x) == \A k \in 1..Len(x) : x[k] \in Whitespace

\* C9: location is the non-blank parts among description and locality, in
\* that order, joined by ", "; none gives "", one gives that part alone; the
\* record always has a location.
C9_Location ==
  pc = "prepared" =>
    \A i \in 1..Len(raw_events) :
      LET d == PartText(raw_events[i].physicalAddress, "description")
          l == PartText(raw_events[i].physicalAddress, "locality")
      IN  /\ "location" \in DOMAIN events[i]
          /\ events[i].location =
               CASE Blank(d) /\ Blank(l) -> <<>>
                 [] ~Blank(d) /\ Blank(l) -> d
                 [] Blank(d) /\ ~Blank(l) -> l
                 [] ~Blank(d) /\ ~Blank(l) -> d \o <<",", " ">> \o l

C9_Witness ==
  /\ pc = "prepared"
  /\ PartText(raw_events[1].physicalAddress, "description") = <<" ">>
  /\ PartText(raw_events[1].physicalAddress, "locality") = <<"L">>
  /\ events[1].location = <<"L">>

\* C10: a send is attempted only when --test was given and main completed
\* with both artifacts written in this run, and it goes to the test
\* recipient only, never to the list.
C10_SendOnlyOnTest ==
  attempts # <<>> =>
    /\ argv_test
    /\ html_written
    /\ inlined_written
    /\ exc = "none"
    /\ raw_events # <<>>
    /\ pc = "exited"
    /\ exit_code = 0
    /\ \A i \in 1..Len(attempts) : attempts[i].to = "test_email"

C10_Witness == attempts # <<>> /\ attempts[1].to = "test_email"

====
